---- MODULE Spec2Model ----
(***************************************************************************)
(* Model of getComments (src/main.go): one goroutine per video URL, a      *)
(* shared rate.Limiter (burst 1, one token per second), backoff.Retry      *)
(* around the fetch-and-append operation, and a sync.WaitGroup join.       *)
(*                                                                         *)
(* Time is a discrete clock of ticks, Interval ticks to the second (the    *)
(* limiter's refill interval).  Text is a sequence of atoms (an atom       *)
(* stands for the bytes of one piece of the formatted line).  A write to a *)
(* file that fails leaves the file as it was.                              *)
(***************************************************************************)
EXTENDS Integers, Sequences, FiniteSets, TLC

(***************************************************************************)
(* Bounds of the model and constants of the program.                       *)
(***************************************************************************)
\* number of URLs handed to getComments (len(videoUrls))
NTasks == 2
\* size of the bufio.Writer buffer, in atoms (bufio's default, scaled down)
BufSize == 6
\* backoff.DefaultMaxElapsedTime, in ticks (scaled down)
MaxElapsedTime == 1
\* largest randomized delay NextBackOff may return, in ticks (scaled down)
MaxInterval == 2
\* the page-size bound handed to MaxResults
MaxComments == 3
\* rate.NewLimiter(rate.Every(time.Second), 1): burst
Burst == 1
\* rate.Every(time.Second): ticks per token (two ticks to the second)
Interval == 2

Tasks == 1..NTasks

(***************************************************************************)
(* Inputs: video URLs, as token sequences.                                 *)
(***************************************************************************)
\* "https://www.youtube.com/watch?v=A"
UrlA == <<"https://www.youtube.com/watch", "?", "v", "=", "A">>
\* "https://www.youtube.com/watch?t=5&v=B"
UrlB == <<"https://www.youtube.com/watch", "?", "t", "=", "5", "&", "v", "=", "B">>
\* "https://www.youtube.com/watch?list=PL1": parses, has no v parameter
UrlNoV == <<"https://www.youtube.com/watch", "?", "list", "=", "PL1">>
\* "https://www.youtube.com/%zz": url.Parse fails (invalid URL escape)
UrlBad == <<"https://www.youtube.com/", "%zz">>

UrlOrder == <<UrlA, UrlB, UrlNoV, UrlBad>>
URLs == {UrlOrder[i] : i \in 1..Len(UrlOrder)}

\* the URL lists getComments is run on: every choice of NTasks URLs (the order
\* of a list only decides which goroutine is started first)
VideoUrlLists ==
    {[t \in Tasks |-> UrlOrder[f[t]]] :
        f \in {g \in [Tasks -> 1..Len(UrlOrder)] :
                  \A a, b \in Tasks : a <= b => g[a] <= g[b]}}

\* index of the first occurrence of tok in s, 0 when there is none
IndexOf(s, tok) ==
    IF \E i \in 1..Len(s) : s[i] = tok
    THEN CHOOSE i \in 1..Len(s) : s[i] = tok /\ \A j \in 1..(i - 1) : s[j] # tok
    ELSE 0

RECURSIVE Join(_)
Join(s) == IF s = <<>> THEN "" ELSE Head(s) \o Join(Tail(s))

\* the part of the URL before the query
UrlPath(u) ==
    LET q == IndexOf(u, "?") IN IF q = 0 THEN u ELSE SubSeq(u, 1, q - 1)

\* u.RawQuery
RawQuery(u) ==
    LET q == IndexOf(u, "?") IN IF q = 0 THEN <<>> ELSE SubSeq(u, q + 1, Len(u))

\* url.Parse: fails on an invalid escape in the path
UrlParseFails(u) == \E i \in 1..Len(UrlPath(u)) : UrlPath(u)[i] = "%zz"

\* u.Query().Get(key): the first value of key, "" when key is absent
RECURSIVE QueryGet(_, _)
QueryGet(q, key) ==
    IF q = <<>> THEN ""
    ELSE LET amp  == IndexOf(q, "&")
             pair == IF amp = 0 THEN q ELSE SubSeq(q, 1, amp - 1)
             rest == IF amp = 0 THEN <<>> ELSE SubSeq(q, amp + 1, Len(q))
             eq   == IndexOf(pair, "=")
             k    == Join(IF eq = 0 THEN pair ELSE SubSeq(pair, 1, eq - 1))
             v    == Join(IF eq = 0 THEN <<>> ELSE SubSeq(pair, eq + 1, Len(pair)))
         IN  IF pair # <<>> /\ k = key THEN v ELSE QueryGet(rest, key)

\* getVideoId: (id, err)
getVideoId(videoUrl) ==
    IF UrlParseFails(videoUrl)
    THEN [id |-> "", err |-> TRUE]
    ELSE [id |-> QueryGet(RawQuery(videoUrl), "v"), err |-> FALSE]

defaultCommentsFileName == "comments"

\* fmt.Sprintf("%s_%s.txt", defaultCommentsFileName, videoId)
Filename(videoId) == defaultCommentsFileName \o "_" \o videoId \o ".txt"

VideoIds == {getVideoId(u).id : u \in URLs}
Filenames == {Filename(id) : id \in VideoIds}

(***************************************************************************)
(* The remote comment listing (a stub) and the line format.                *)
(***************************************************************************)
Rec1 == [author |-> <<"Alice">>, text |-> <<"hi">>]
Rec2 == [author |-> <<"Bob">>, text |-> <<"nice", " ", "video">>]
Rec3 == [author |-> <<"Eve">>, text |-> <<"ok">>]

Min(a, b) == IF a < b THEN a ELSE b

\* the items of a successful CommentThreads.List(...).VideoId(id).MaxResults(n)
Response(videoId, maxComments) ==
    LET all == IF videoId = "" THEN <<Rec2>> ELSE <<Rec1, Rec2, Rec3>>
    IN  SubSeq(all, 1, Min(maxComments, Len(all)))

\* fmt.Fprintf(writer, "Comment from %s: %s\n", author, text): the bytes
FormatLine(rec) == <<"Comment from ">> \o rec.author \o <<": ">> \o rec.text \o <<"\n">>

\* content of comments_A.txt before the run; the other files do not exist
OldContent == <<"old line", "\n">>
InitialFiles ==
    [f \in Filenames |->
        IF f = Filename("A") THEN [exists |-> TRUE, data |-> OldContent]
                             ELSE [exists |-> FALSE, data |-> <<>>]]

(***************************************************************************)
(* State.                                                                  *)
(***************************************************************************)
VARIABLES
    videoUrls,   \* the argument of getComments
    mainPc,      \* "loop" | "returned": where getComments itself is
    spawned,     \* number of goroutines started by the for loop
    wg,          \* the WaitGroup counter
    ctxDone,     \* TRUE once ctx is cancelled
    now,         \* the clock
    lim,         \* the limiter: tokens, last, lastEvent
    pc,          \* per task: where the goroutine is
    timeToAct,   \* per task: its reservation's time (rate.Reservation)
    wakeAt,      \* per task: end of the current backoff sleep
    startTime,   \* per task: the back-off's start time (b.Reset())
    resp,        \* per task: response.Items of the current attempt
    idx,         \* per task: index of the next item of the write loop
    buf,         \* per task: the bufio.Writer's buffered bytes
    pend,        \* per task: bytes of the current line bufio.Write still holds
    werr,        \* per task: the bufio.Writer's sticky error (b.err # nil)
    opErr,       \* per task: the operation's pending return value is an error
    fileOpen,    \* per task: the attempt holds an open file handle
    fs,          \* the file system: filename -> [exists, data]
    permits,     \* history: per task, permits granted by limiter.Wait
    grantTimes,  \* history: the times permits were granted for
    calls,       \* history: per task, call.Do() invocations
    invocations, \* history: per task, invocations of operation
    diags,       \* history: per task, the diagnostics printed (color.Red)
    outcome,     \* per task: "none" | "Succeeded" | "Exhausted" | "Cancelled"
    failures,    \* history: per task, invocations of operation that returned an error
    callFails,   \* history: per task, call.Do() invocations that returned an error
    sleepingAtCancel \* history: the tasks that slept in backoff when ctx was cancelled

taskVars == <<pc, timeToAct, wakeAt, startTime, resp, idx, buf, pend, werr, opErr, fileOpen>>
histVars == <<permits, grantTimes, calls, invocations, diags, outcome, failures, callFails,
              sleepingAtCancel>>
vars == <<videoUrls, mainPc, spawned, wg, ctxDone, now, lim, taskVars, fs, histVars>>

Init ==
    /\ videoUrls \in VideoUrlLists
    /\ mainPc = "loop"
    /\ spawned = 0
    /\ wg = 0
    /\ ctxDone = FALSE
    /\ now = 0
    /\ lim = [tokens |-> Burst * Interval, last |-> 0, lastEvent |-> 0]
    /\ pc = [t \in Tasks |-> "unborn"]
    /\ timeToAct = [t \in Tasks |-> 0]
    /\ wakeAt = [t \in Tasks |-> 0]
    /\ startTime = [t \in Tasks |-> 0]
    /\ resp = [t \in Tasks |-> <<>>]
    /\ idx = [t \in Tasks |-> 1]
    /\ buf = [t \in Tasks |-> <<>>]
    /\ pend = [t \in Tasks |-> <<>>]
    /\ werr = [t \in Tasks |-> FALSE]
    /\ opErr = [t \in Tasks |-> FALSE]
    /\ fileOpen = [t \in Tasks |-> FALSE]
    /\ fs = InitialFiles
    /\ permits = [t \in Tasks |-> 0]
    /\ grantTimes = {}
    /\ calls = [t \in Tasks |-> 0]
    /\ invocations = [t \in Tasks |-> 0]
    /\ diags = [t \in Tasks |-> <<>>]
    /\ outcome = [t \in Tasks |-> "none"]
    /\ failures = [t \in Tasks |-> 0]
    /\ callFails = [t \in Tasks |-> 0]
    /\ sleepingAtCancel = {}

(***************************************************************************)
(* The rate limiter (golang.org/x/time/rate), as getComments uses it.      *)
(* Tokens are counted in units of 1/Interval token: a tick adds one unit.  *)
(***************************************************************************)
\* Limiter.advance: the tokens available at time t
LimAdvance(l, t) ==
    LET last == Min(l.last, t)
    IN  Min(Burst * Interval, l.tokens + (t - last))

\* a reservation that forgets to take the token out of the bucket
ReserveNoDebit(l, t) ==
    LET tokens == LimAdvance(l, t)
    IN  [lim |-> [tokens |-> tokens, last |-> t, lastEvent |-> t], timeToAct |-> t]

\* a reservation that never lets the count fall below zero
ReserveClamped(l, t) ==
    LET tokens == LimAdvance(l, t) - Interval
        wait   == IF tokens < 0 THEN 0 - tokens ELSE 0
    IN  [lim |-> [tokens |-> IF tokens < 0 THEN 0 ELSE tokens, last |-> t,
                  lastEvent |-> t + wait],
         timeToAct |-> t + wait]

\* Limiter.reserveN(t, 1, InfDuration): the limiter after, and the time to act
Reserve(l, t) ==
    LET tokens == LimAdvance(l, t) - Interval
        wait   == IF tokens < 0 THEN 0 - tokens ELSE 0
    IN  [lim |-> [tokens |-> tokens, last |-> t, lastEvent |-> t + wait],
         timeToAct |-> t + wait]

\* Reservation.CancelAt(t) of a one-token reservation for time tta
CancelAt(l, tta, t) ==
    LET restore == Interval - (l.lastEvent - tta)
        tokens  == Min(Burst * Interval, LimAdvance(l, t) + restore)
        prev    == tta - Interval
    IN  IF tta < t \/ restore <= 0 THEN l
        ELSE [tokens |-> tokens, last |-> t,
              lastEvent |-> IF tta = l.lastEvent /\ prev >= t THEN prev ELSE l.lastEvent]

(***************************************************************************)
(* getComments itself: the spawning loop and the join.                     *)
(***************************************************************************)
\* for _, videoUrl := range videoUrls { wg.Add(1); go func(videoUrl) {...} }
Spawn ==
    /\ mainPc = "loop"
    /\ spawned < Len(videoUrls)
    /\ spawned' = spawned + 1
    /\ wg' = wg + 1
    /\ pc' = [pc EXCEPT ![spawned + 1] = "start"]
    /\ UNCHANGED <<videoUrls, mainPc, ctxDone, now, lim, timeToAct, wakeAt, startTime,
                   resp, idx, buf, pend, werr, opErr, fileOpen, fs, histVars>>

\* a join that does not wait for the counter
WgWaitNoBlock ==
    /\ mainPc = "loop"
    /\ spawned = Len(videoUrls)
    /\ mainPc' = "returned"
    /\ UNCHANGED <<videoUrls, spawned, wg, ctxDone, now, lim, taskVars, fs, histVars>>

\* wg.Wait() and the return of getComments
WgWait ==
    /\ mainPc = "loop"
    /\ spawned = Len(videoUrls)
    /\ wg = 0
    /\ mainPc' = "returned"
    /\ UNCHANGED <<videoUrls, spawned, wg, ctxDone, now, lim, taskVars, fs, histVars>>

\* a Done that only the success path calls
WgAfterDoneOnSuccessOnly(how) == IF how = "Succeeded" THEN wg - 1 ELSE wg

\* defer wg.Done(): the counter once a goroutine has ended with outcome how
WgAfterDone(how) == wg - 1

\* an end that, on failure, takes the whole process down (as log.Fatal would)
TaskEndsFatal(t, how, msg) ==
    /\ pc' = IF how = "Succeeded" THEN [pc EXCEPT ![t] = "done"]
                                  ELSE [u \in Tasks |-> "done"]
    /\ outcome' = [outcome EXCEPT ![t] = how]
    /\ diags' = [diags EXCEPT ![t] = IF msg = "" THEN @ ELSE Append(@, msg)]
    /\ wg' = WgAfterDone(how)

\* the goroutine ends with outcome how, printing msg when it is not ""
TaskEnds(t, how, msg) ==
    /\ pc' = [pc EXCEPT ![t] = "done"]
    /\ outcome' = [outcome EXCEPT ![t] = how]
    /\ diags' = [diags EXCEPT ![t] = IF msg = "" THEN @ ELSE Append(@, msg)]
    /\ wg' = WgAfterDone(how)

(***************************************************************************)
(* limiter.Wait(ctx).                                                      *)
(***************************************************************************)
\* Wait returned nil: the permit is granted, and backoff.Retry starts (b.Reset())
Granted(t, tta) ==
    /\ permits' = [permits EXCEPT ![t] = @ + 1]
    /\ grantTimes' = grantTimes \cup {<<t, tta>>}
    /\ startTime' = [startTime EXCEPT ![t] = now]

\* limiter.Wait(ctx) is entered: ctx already done, or a reservation is made
LimiterWait(t) ==
    /\ pc[t] = "start"
    /\ IF ctxDone
       THEN /\ TaskEnds(t, "Cancelled", "Rate limit error")
            /\ UNCHANGED <<lim, timeToAct, permits, grantTimes, startTime>>
       ELSE LET r == Reserve(lim, now) IN
            /\ lim' = r.lim
            /\ timeToAct' = [timeToAct EXCEPT ![t] = r.timeToAct]
            /\ IF r.timeToAct = now
               THEN /\ pc' = [pc EXCEPT ![t] = "retry"]
                    /\ Granted(t, r.timeToAct)
               ELSE /\ pc' = [pc EXCEPT ![t] = "limWait"]
                    /\ UNCHANGED <<permits, grantTimes, startTime>>
            /\ UNCHANGED <<wg, outcome, diags>>
    /\ UNCHANGED <<videoUrls, sleepingAtCancel, mainPc, spawned, ctxDone, now, wakeAt,
                   resp, idx, buf, pend, werr, opErr, fileOpen, fs, calls, invocations,
                   failures, callFails>>

\* the reservation's timer fires
LimiterTimer(t) ==
    /\ pc[t] = "limWait"
    /\ now >= timeToAct[t]
    /\ pc' = [pc EXCEPT ![t] = "retry"]
    /\ Granted(t, timeToAct[t])
    /\ UNCHANGED <<videoUrls, sleepingAtCancel, mainPc, spawned, wg, ctxDone, now, lim, timeToAct, wakeAt,
                   resp, idx, buf, pend, werr, opErr, fileOpen, fs,
                   calls, invocations, diags, outcome, failures, callFails>>

\* the error branch of limiter.Wait without its return: the goroutine prints the
\* error and goes on to backoff.Retry
LimiterCancelledNoReturn(t) ==
    /\ pc[t] = "limWait"
    /\ ctxDone
    /\ lim' = CancelAt(lim, timeToAct[t], now)
    /\ pc' = [pc EXCEPT ![t] = "retry"]
    /\ diags' = [diags EXCEPT ![t] = Append(@, "Rate limit error")]
    /\ startTime' = [startTime EXCEPT ![t] = now]
    /\ UNCHANGED <<videoUrls, sleepingAtCancel, mainPc, spawned, wg, ctxDone, now, timeToAct, wakeAt,
                   resp, idx, buf, pend, werr, opErr, fileOpen, fs, outcome,
                   permits, grantTimes, calls, invocations, failures, callFails>>

\* ctx is done while the goroutine waits for its reservation: r.Cancel()
LimiterCancelled(t) ==
    /\ pc[t] = "limWait"
    /\ ctxDone
    /\ lim' = CancelAt(lim, timeToAct[t], now)
    /\ TaskEnds(t, "Cancelled", "Rate limit error")
    /\ UNCHANGED <<videoUrls, sleepingAtCancel, mainPc, spawned, ctxDone, now, timeToAct, wakeAt, startTime,
                   resp, idx, buf, pend, werr, opErr, fileOpen, fs,
                   permits, grantTimes, calls, invocations, failures, callFails>>

(***************************************************************************)
(* backoff.Retry(operation, backoff.NewExponentialBackOff()).              *)
(***************************************************************************)
\* NextBackOff returns Stop: the randomized delay d would pass MaxElapsedTime
NextBackOffStops(elapsed, d) == elapsed + d > MaxElapsedTime

\* a Retry that does not stop at the first success: it sleeps and runs operation again
OperationReturnsIgnoresSuccess(t, err) ==
    /\ failures' = [failures EXCEPT ![t] = IF err THEN @ + 1 ELSE @]
    /\ \E d \in 1..MaxInterval :
          IF err /\ NextBackOffStops(now - startTime[t], d)
          THEN /\ TaskEnds(t, "Exhausted", "Failed to retrieve comments")
               /\ UNCHANGED wakeAt
          ELSE /\ pc' = [pc EXCEPT ![t] = "backoff"]
               /\ wakeAt' = [wakeAt EXCEPT ![t] = now + d]
               /\ UNCHANGED <<wg, outcome, diags>>

\* a Retry that prints the failure of every attempt, not only of the last
OperationReturnsReportsEach(t, err) ==
    IF ~err
    THEN /\ TaskEnds(t, "Succeeded", "")
         /\ UNCHANGED <<wakeAt, failures>>
    ELSE /\ failures' = [failures EXCEPT ![t] = @ + 1]
         /\ \E d \in 1..MaxInterval :
               IF NextBackOffStops(now - startTime[t], d)
               THEN /\ TaskEnds(t, "Exhausted", "Failed to retrieve comments")
                    /\ UNCHANGED wakeAt
               ELSE /\ pc' = [pc EXCEPT ![t] = "backoff"]
                    /\ wakeAt' = [wakeAt EXCEPT ![t] = now + d]
                    /\ diags' = [diags EXCEPT ![t] = Append(@, "Failed to retrieve comments")]
                    /\ UNCHANGED <<wg, outcome>>

\* operation returned (err: with an error): Retry returns, or sleeps and retries.
\* Retry runs on its own background context: it never looks at ctx.
OperationReturns(t, err) ==
    IF ~err
    THEN /\ TaskEnds(t, "Succeeded", "")
         /\ UNCHANGED <<wakeAt, failures>>
    ELSE /\ failures' = [failures EXCEPT ![t] = @ + 1]
         /\ \E d \in 1..MaxInterval :
               IF NextBackOffStops(now - startTime[t], d)
               THEN /\ TaskEnds(t, "Exhausted", "Failed to retrieve comments")
                    /\ UNCHANGED wakeAt
               ELSE /\ pc' = [pc EXCEPT ![t] = "backoff"]
                    /\ wakeAt' = [wakeAt EXCEPT ![t] = now + d]
                    /\ UNCHANGED <<wg, outcome, diags>>

\* the file the task's attempts open
FileOf(t) == Filename(getVideoId(videoUrls[t]).id)

\* a write(2) of chunk to a file opened with O_APPEND
AppendTo(files, f, chunk) == [files EXCEPT ![f].data = @ \o chunk]

\* os.OpenFile(filename, O_APPEND|O_CREATE|O_WRONLY, 0644) succeeded
OpenFile(files, f) == [files EXCEPT ![f].exists = TRUE]

\* operation is invoked: client, getVideoId, os.OpenFile, bufio.NewWriter
OpBegin(t) ==
    /\ pc[t] = "retry"
    /\ invocations' = [invocations EXCEPT ![t] = @ + 1]
    /\ \E newOk \in BOOLEAN, openOk \in BOOLEAN :
          IF newOk /\ ~getVideoId(videoUrls[t]).err /\ openOk
          THEN /\ fs' = OpenFile(fs, FileOf(t))
               /\ fileOpen' = [fileOpen EXCEPT ![t] = TRUE]
               /\ buf' = [buf EXCEPT ![t] = <<>>]
               /\ werr' = [werr EXCEPT ![t] = FALSE]
               /\ opErr' = [opErr EXCEPT ![t] = FALSE]
               /\ pc' = [pc EXCEPT ![t] = "call"]
               /\ UNCHANGED <<wakeAt, wg, outcome, diags, failures>>
          ELSE /\ OperationReturns(t, TRUE)
               /\ UNCHANGED <<fs, fileOpen, buf, werr, opErr>>
    /\ UNCHANGED <<videoUrls, sleepingAtCancel, mainPc, spawned, ctxDone, now, lim, timeToAct, startTime,
                   resp, idx, pend, permits, grantTimes, calls, callFails>>

\* call.Do(): the remote call answers with the items, or fails
CallDo(t) ==
    /\ pc[t] = "call"
    /\ calls' = [calls EXCEPT ![t] = @ + 1]
    /\ \E ok \in BOOLEAN :
          LET items == Response(getVideoId(videoUrls[t]).id, MaxComments) IN
          IF ok
          THEN /\ resp' = [resp EXCEPT ![t] = items]
               /\ idx' = [idx EXCEPT ![t] = 1]
               /\ pc' = [pc EXCEPT ![t] = IF items = <<>> THEN "flush" ELSE "write"]
               /\ UNCHANGED <<opErr, callFails>>
          ELSE /\ opErr' = [opErr EXCEPT ![t] = TRUE]
               /\ callFails' = [callFails EXCEPT ![t] = @ + 1]
               /\ pc' = [pc EXCEPT ![t] = "flush"]
               /\ UNCHANGED <<resp, idx>>
    /\ UNCHANGED <<videoUrls, sleepingAtCancel, mainPc, spawned, wg, ctxDone, now, lim, timeToAct, wakeAt,
                   startTime, buf, pend, werr, fileOpen, fs,
                   permits, grantTimes, invocations, diags, outcome, failures>>

\* one pass of bufio.Writer.Write over the bytes p, with at most one write to the
\* file (ok: that write succeeds): the buffer after, the bytes Write still holds,
\* the bytes that reached the file, and whether the writer is now in error
BufioWritePass(b, p, ok) ==
    LET r == IF Len(p) > BufSize - Len(b)
             THEN IF Len(b) = 0
                  THEN \* large write, empty buffer: written directly from p
                       [buf |-> b, pend |-> IF ok THEN <<>> ELSE p,
                        out |-> IF ok THEN p ELSE <<>>, err |-> ~ok]
                  ELSE \* fill the buffer, then Flush
                       LET n    == BufSize - Len(b)
                           full == b \o SubSeq(p, 1, n)
                       IN  [buf |-> IF ok THEN <<>> ELSE full,
                            pend |-> SubSeq(p, n + 1, Len(p)),
                            out |-> IF ok THEN full ELSE <<>>, err |-> ~ok]
             ELSE [buf |-> b, pend |-> p, out |-> <<>>, err |-> FALSE]
    IN  IF ~r.err /\ Len(r.pend) <= BufSize - Len(r.buf)
        THEN [r EXCEPT !.buf = r.buf \o r.pend, !.pend = <<>>]
        ELSE r

\* fmt.Fprintf(writer, ...) for the item idx of the write loop (one pass of it)
Fprintf(t) ==
    /\ pc[t] = "write"
    /\ \E ok \in BOOLEAN :
          LET p == IF pend[t] # <<>> THEN pend[t] ELSE FormatLine(resp[t][idx[t]])
              r == BufioWritePass(buf[t], p, ok)
          IN  /\ fs' = IF r.out # <<>> THEN AppendTo(fs, FileOf(t), r.out) ELSE fs
              /\ buf' = [buf EXCEPT ![t] = r.buf]
              /\ werr' = [werr EXCEPT ![t] = r.err]
              /\ IF r.err
                 THEN /\ opErr' = [opErr EXCEPT ![t] = TRUE]
                      /\ pc' = [pc EXCEPT ![t] = "flush"]
                      /\ pend' = [pend EXCEPT ![t] = <<>>]
                      /\ UNCHANGED idx
                 ELSE IF r.pend # <<>>
                 THEN /\ pend' = [pend EXCEPT ![t] = r.pend]
                      /\ UNCHANGED <<opErr, pc, idx>>
                 ELSE /\ pend' = [pend EXCEPT ![t] = <<>>]
                      /\ IF idx[t] = Len(resp[t])
                         THEN /\ pc' = [pc EXCEPT ![t] = "flush"]
                              /\ UNCHANGED idx
                         ELSE /\ idx' = [idx EXCEPT ![t] = @ + 1]
                              /\ UNCHANGED pc
                      /\ UNCHANGED opErr
    /\ UNCHANGED <<videoUrls, mainPc, spawned, wg, ctxDone, now, lim, timeToAct, wakeAt,
                   startTime, resp, fileOpen, histVars>>

\* an operation without the deferred Flush: what the buffer holds is never written
DeferFlushSkipped(t) ==
    /\ pc[t] = "flush"
    /\ pc' = [pc EXCEPT ![t] = "close"]
    /\ UNCHANGED <<videoUrls, mainPc, spawned, wg, ctxDone, now, lim, timeToAct, wakeAt,
                   startTime, resp, idx, buf, pend, werr, opErr, fileOpen, fs, histVars>>

\* defer writer.Flush(): runs first on the way out; what it returns is dropped
DeferFlush(t) ==
    /\ pc[t] = "flush"
    /\ IF werr[t] \/ buf[t] = <<>>
       THEN UNCHANGED <<fs, buf, werr>>
       ELSE \E ok \in BOOLEAN :
               IF ok
               THEN /\ fs' = AppendTo(fs, FileOf(t), buf[t])
                    /\ buf' = [buf EXCEPT ![t] = <<>>]
                    /\ UNCHANGED werr
               ELSE /\ werr' = [werr EXCEPT ![t] = TRUE]
                    /\ UNCHANGED <<fs, buf>>
    /\ pc' = [pc EXCEPT ![t] = "close"]
    /\ UNCHANGED <<videoUrls, mainPc, spawned, wg, ctxDone, now, lim, timeToAct, wakeAt,
                   startTime, resp, idx, pend, opErr, fileOpen, histVars>>

\* a Close that is not deferred: only the success path closes the file
DeferCloseOnSuccessOnly(t) ==
    /\ pc[t] = "close"
    /\ fileOpen' = [fileOpen EXCEPT ![t] = opErr[t]]
    /\ buf' = [buf EXCEPT ![t] = <<>>]
    /\ resp' = [resp EXCEPT ![t] = <<>>]
    /\ idx' = [idx EXCEPT ![t] = 1]
    /\ opErr' = [opErr EXCEPT ![t] = FALSE]
    /\ OperationReturns(t, opErr[t])
    /\ UNCHANGED <<videoUrls, sleepingAtCancel, mainPc, spawned, ctxDone, now, lim, timeToAct, startTime,
                   pend, werr, fs, permits, grantTimes, calls, invocations, callFails>>

\* defer file.Close(): runs last; then operation returns to Retry
DeferClose(t) ==
    /\ pc[t] = "close"
    /\ fileOpen' = [fileOpen EXCEPT ![t] = FALSE]
    /\ buf' = [buf EXCEPT ![t] = <<>>]
    /\ resp' = [resp EXCEPT ![t] = <<>>]
    /\ idx' = [idx EXCEPT ![t] = 1]
    /\ opErr' = [opErr EXCEPT ![t] = FALSE]
    /\ OperationReturns(t, opErr[t])
    /\ UNCHANGED <<videoUrls, sleepingAtCancel, mainPc, spawned, ctxDone, now, lim, timeToAct, startTime,
                   pend, werr, fs, permits, grantTimes, calls, invocations, callFails>>

\* the backoff sleep ends: the next attempt starts
BackoffTimer(t) ==
    /\ pc[t] = "backoff"
    /\ now >= wakeAt[t]
    /\ pc' = [pc EXCEPT ![t] = "retry"]
    /\ wakeAt' = [wakeAt EXCEPT ![t] = 0]
    /\ UNCHANGED <<videoUrls, mainPc, spawned, wg, ctxDone, now, lim, timeToAct, startTime,
                   resp, idx, buf, pend, werr, opErr, fileOpen, fs, histVars>>

(***************************************************************************)
(* The environment: the clock and the caller's cancellation of ctx.        *)
(***************************************************************************)
\* a goroutine is blocked on a timer that has not fired yet
Sleeping(t) ==
    \/ pc[t] = "limWait" /\ timeToAct[t] > now
    \/ pc[t] = "backoff" /\ wakeAt[t] > now

\* time passes (steps of the goroutines take no time of their own)
Tick ==
    /\ \E t \in Tasks : Sleeping(t)
    /\ now' = now + 1
    /\ UNCHANGED <<videoUrls, mainPc, spawned, wg, ctxDone, lim, taskVars, fs, histVars>>

\* the caller cancels ctx
Cancel ==
    /\ ~ctxDone
    /\ mainPc # "returned"
    /\ ctxDone' = TRUE
    /\ sleepingAtCancel' = {t \in Tasks : pc[t] = "backoff"}
    /\ UNCHANGED <<videoUrls, mainPc, spawned, wg, now, lim, taskVars, fs,
                   permits, grantTimes, calls, invocations, diags, outcome, failures,
                   callFails>>

TaskStep(t) ==
    \/ LimiterWait(t)
    \/ LimiterTimer(t)
    \/ LimiterCancelled(t)
    \/ OpBegin(t)
    \/ CallDo(t)
    \/ Fprintf(t)
    \/ DeferFlush(t)
    \/ DeferClose(t)
    \/ BackoffTimer(t)

Next ==
    \/ Spawn
    \/ WgWait
    \/ Tick
    \/ Cancel
    \/ \E t \in Tasks : TaskStep(t)

Spec == Init /\ [][Next]_vars

\* the Go scheduler runs every runnable goroutine, and timers fire
FairSpec ==
    /\ Spec
    /\ WF_vars(Spawn)
    /\ WF_vars(WgWait)
    /\ WF_vars(Tick)
    /\ \A t \in Tasks : WF_vars(TaskStep(t))

(***************************************************************************)
(* Vocabulary of the properties.                                           *)
(***************************************************************************)
IdOf(t) == getVideoId(videoUrls[t]).id

\* the lines of the items, one after the other
RECURSIVE Lines(_)
Lines(items) == IF items = <<>> THEN <<>> ELSE FormatLine(Head(items)) \o Lines(Tail(items))

\* what a complete fetch of the task's video appends
ExpectedLines(t) == Lines(Response(IdOf(t), MaxComments))

\* no other task of the run writes to the task's file
SoleWriter(t) == \A u \in Tasks \ {t} : FileOf(u) # FileOf(t)

Terminal(t) == pc[t] = "done" /\ outcome[t] \in {"Succeeded", "Exhausted", "Cancelled"}

\* s is a concatenation of whole lines
WholeLineSet == {FormatLine(r) : r \in {Rec1, Rec2, Rec3}} \cup {OldContent}
RECURSIVE WholeLines(_)
WholeLines(s) ==
    \/ s = <<>>
    \/ \E l \in WholeLineSet :
          /\ Len(l) <= Len(s)
          /\ SubSeq(s, 1, Len(l)) = l
          /\ WholeLines(SubSeq(s, Len(l) + 1, Len(s)))

\* everything of the task that only the task itself may change
Local(t) ==
    <<pc[t], timeToAct[t], wakeAt[t], startTime[t], resp[t], idx[t], buf[t], pend[t],
      werr[t], opErr[t], fileOpen[t], permits[t], calls[t], invocations[t], diags[t],
      outcome[t], failures[t], callFails[t]>>

(***************************************************************************)
(* C1.  Every remote call of a task is preceded by a permit of its own: a  *)
(* task never has issued more remote calls than it was granted permits.    *)
(* The code takes one permit before backoff.Retry and none inside it.      *)
(***************************************************************************)
C1_CallsWithinPermits == \A t \in Tasks : calls[t] <= permits[t]

(***************************************************************************)
(* C2.  In every window of one refill interval at most Burst permits are   *)
(* granted; no two tasks hold a permit for the same refill tick.           *)
(***************************************************************************)
C2_NoBurst ==
    /\ \A s \in 0..now :
          Cardinality({g \in grantTimes : s <= g[2] /\ g[2] < s + Interval}) <= Burst
    /\ \A g, h \in grantTimes : g # h => g[2] # h[2]

\* two tasks asked the limiter at the same instant and both got their permit
C2_Witness ==
    \E a, b \in Tasks :
        /\ a # b
        /\ permits[a] = 1 /\ permits[b] = 1
        /\ \E ga, gb \in grantTimes : ga[1] = a /\ gb[1] = b /\ gb[2] >= ga[2] + Interval
        /\ lim.last = 0

(***************************************************************************)
(* C3.  getComments returns only when every task it started has ended      *)
(* (Succeeded, Exhausted or Cancelled): none is pending, in flight,        *)
(* sleeping or writing once the call has returned.                         *)
(***************************************************************************)
C3_ReturnAfterAllTerminal ==
    mainPc = "returned" =>
        \A t \in Tasks : Terminal(t) /\ ~fileOpen[t] /\ buf[t] = <<>>

\* returned after one task exhausted its retries and another succeeded
C3_Witness ==
    /\ mainPc = "returned"
    /\ \E a, b \in Tasks : outcome[a] = "Exhausted" /\ outcome[b] = "Succeeded"

(***************************************************************************)
(* C4.  Under fair scheduling getComments eventually returns with every    *)
(* task ended, also when a task fails at every attempt: its retry budget   *)
(* runs out and the join is released.                                      *)
(***************************************************************************)
C4_EventuallyReturns == <>(mainPc = "returned" /\ \A t \in Tasks : Terminal(t))

\* the run over [A, B, ...]: A failed at every attempt and wrote nothing, B succeeded
C4_Witness ==
    /\ mainPc = "returned"
    /\ videoUrls[1] = UrlA /\ videoUrls[2] = UrlB
    /\ outcome[1] = "Exhausted" /\ calls[1] >= 2 /\ calls[1] = invocations[1]
    /\ fs[FileOf(1)].data = OldContent
    /\ outcome[2] = "Succeeded"
    /\ fs[FileOf(2)].data = ExpectedLines(2)

(***************************************************************************)
(* C5.  A task never cancels, blocks or alters a sibling: a step of one    *)
(* task (a failed attempt and the exhaustion of its retries included)      *)
(* changes nothing of another task and nothing in the file of another      *)
(* identifier; and what a task that is the sole writer of its file has     *)
(* appended on a clean first attempt is its own items, whatever the other  *)
(* tasks did.                                                              *)
(***************************************************************************)
C5_SiblingsUntouched ==
    /\ [][\A a \in Tasks : Local(a)' # Local(a) =>
             \A b \in Tasks \ {a} :
                 /\ Local(b)' = Local(b)
                 /\ IdOf(b) # IdOf(a) => fs'[FileOf(b)] = fs[FileOf(b)]]_vars
    /\ [](\A b \in Tasks :
             (outcome[b] = "Succeeded" /\ invocations[b] = 1 /\ ~werr[b] /\ SoleWriter(b))
                 => fs[FileOf(b)].data = InitialFiles[FileOf(b)].data \o ExpectedLines(b))

\* A exhausted its retries while B, of another identifier, succeeded with its lines
C5_Witness ==
    \E a, b \in Tasks :
        /\ IdOf(a) # IdOf(b)
        /\ outcome[a] = "Exhausted" /\ invocations[a] >= 2
        /\ outcome[b] = "Succeeded" /\ invocations[b] = 1
        /\ fs[FileOf(b)].data = InitialFiles[FileOf(b)].data \o ExpectedLines(b)

(***************************************************************************)
(* C6.  A task that sleeps in backoff when ctx is cancelled stops          *)
(* retrying: it starts no further attempt.  backoff.Retry is not given     *)
(* ctx, and the task goes on.                                              *)
(***************************************************************************)
C6_NoAttemptAfterCancel ==
    [][\A t \in sleepingAtCancel : invocations'[t] = invocations[t]]_vars

(***************************************************************************)
(* C7.  A task whose URL parses but carries no v parameter (empty video    *)
(* id) fails before any file is opened and before any remote call.         *)
(***************************************************************************)
C7_EmptyIdFailsFast ==
    \A t \in Tasks :
        (~getVideoId(videoUrls[t]).err /\ IdOf(t) = "")
            => calls[t] = 0 /\ ~fileOpen[t] /\ ~fs[Filename("")].exists

(***************************************************************************)
(* C8.  A task that succeeds on its first attempt leaves its file equal to *)
(* the content before the run followed by exactly the lines of the         *)
(* response, in response order.                                            *)
(***************************************************************************)
C8_FirstTrySuccessAppendsLines ==
    \A t \in Tasks :
        (outcome[t] = "Succeeded" /\ invocations[t] = 1 /\ SoleWriter(t))
            => fs[FileOf(t)].data = InitialFiles[FileOf(t)].data \o ExpectedLines(t)

(***************************************************************************)
(* C9.  When tasks of one run target the same identifier the shared file   *)
(* ends as a sequence of whole lines: lines may interleave, never          *)
(* fragment.  (Stated for runs without any failure: every task succeeded   *)
(* at its first attempt and no write failed.)                              *)
(***************************************************************************)
C9_SharedFileWholeLines ==
    (/\ mainPc = "returned"
     /\ \A t \in Tasks : outcome[t] = "Succeeded" /\ invocations[t] = 1 /\ ~werr[t])
        => \A f \in Filenames : WholeLines(fs[f].data)

(***************************************************************************)
(* C10.  Two tasks of distinct identifiers that fetch the same items and   *)
(* succeed each leave their own file with exactly those lines appended, in *)
(* order.  (Stated for first-attempt successes.)                           *)
(***************************************************************************)
C10_DistinctFilesGainTheirLines ==
    \A a, b \in Tasks :
        (/\ IdOf(a) # IdOf(b)
         /\ Response(IdOf(a), MaxComments) = Response(IdOf(b), MaxComments)
         /\ outcome[a] = "Succeeded" /\ invocations[a] = 1
         /\ outcome[b] = "Succeeded" /\ invocations[b] = 1)
            => /\ fs[FileOf(a)].data = InitialFiles[FileOf(a)].data \o ExpectedLines(a)
               /\ fs[FileOf(b)].data = InitialFiles[FileOf(b)].data \o ExpectedLines(b)

(***************************************************************************)
(* C11.  Retry stops at the first success: an operation that failed k      *)
(* times and then returned nil was invoked exactly k+1 times, the task     *)
(* ends Succeeded without any failure diagnostic, and the operation is     *)
(* never invoked again.                                                    *)
(***************************************************************************)
C11_RetryUntilFirstSuccess ==
    /\ [](\A t \in Tasks :
             outcome[t] = "Succeeded"
                 => invocations[t] = failures[t] + 1 /\ diags[t] = <<>>)
    /\ [][\A t \in Tasks :
             (pc[t] = "close" /\ ~opErr[t] /\ pc'[t] # "close")
                 => pc'[t] = "done" /\ outcome'[t] = "Succeeded"]_vars
    /\ [][\A t \in Tasks :
             outcome[t] = "Succeeded" => invocations'[t] = invocations[t]]_vars

\* the operation failed once, was retried after the backoff delay, and succeeded
C11_Witness ==
    \E t \in Tasks :
        /\ outcome[t] = "Succeeded"
        /\ failures[t] = 1 /\ invocations[t] = 2
        /\ diags[t] = <<>>

(***************************************************************************)
(* C12.  Diagnostics are per task, not per attempt: a task that has not    *)
(* ended has printed nothing, a task that ended Succeeded has printed      *)
(* nothing, and a task that ended Exhausted or Cancelled has printed       *)
(* exactly one line (the retry failure, or the rate limit error).          *)
(***************************************************************************)
C12_OneDiagnosticPerFailedTask ==
    \A t \in Tasks :
        diags[t] = CASE outcome[t] = "Exhausted" -> <<"Failed to retrieve comments">>
                     [] outcome[t] = "Cancelled" -> <<"Rate limit error">>
                     [] OTHER -> <<>>

\* the run is over: one task failed at two attempts and reported once, the other
\* was cancelled at the limiter and reported once
C12_Witness ==
    /\ mainPc = "returned"
    /\ \E a, b \in Tasks :
          /\ outcome[a] = "Exhausted" /\ failures[a] = 2 /\ Len(diags[a]) = 1
          /\ outcome[b] = "Cancelled" /\ Len(diags[b]) = 1

(***************************************************************************)
(* C13.  The limiter's available-token count (in units of 1/Interval       *)
(* token) is at every moment between 0 and its capacity.  As stated this   *)
(* fails: a reservation for a later time takes its token at once, and the  *)
(* count is negative while a task waits for its reserved permit.           *)
(***************************************************************************)
Available == LimAdvance(lim, now)

C13_TokensWithinBounds == 0 <= Available /\ Available <= Burst * Interval

(***************************************************************************)
(* C13, amended.  The available-token count never exceeds the capacity and *)
(* is never lower than minus one token per reservation made for a time     *)
(* still to come (its task waits for it, or was cancelled meanwhile);      *)
(* every reservation made by limiter.Wait lowers the count available at    *)
(* that moment by exactly one token.                                       *)
(***************************************************************************)
ReservedAhead == {t \in Tasks : timeToAct[t] > now}

C13_TokensBoundedByWaiters ==
    /\ [](/\ Available <= Burst * Interval
          /\ Available >= 0 - Interval * Cardinality(ReservedAhead))
    /\ [][\A t \in Tasks :
             (pc[t] = "start" /\ pc'[t] \in {"limWait", "retry"})
                 => lim'.tokens = Available - Interval]_vars

\* a task waits for a permit reserved ahead, and the count is one token below zero
C13_Witness ==
    /\ Available = 0 - Interval
    /\ \E a, b \in Tasks : permits[a] = 1 /\ pc[b] = "limWait" /\ b \in ReservedAhead

(***************************************************************************)
(* C14.  On every way out of an attempt that opened its file (success,     *)
(* remote-call error, write error) the writer is flushed and then the file *)
(* is closed, in that order, before the attempt returns: a task holds an   *)
(* open file only inside an attempt, never while it sleeps in backoff or   *)
(* once it has ended; when the file is about to be closed the buffer is    *)
(* empty, or the writer is in error (the flush was tried and failed).      *)
(***************************************************************************)
C14_FlushThenCloseOnEveryPath ==
    /\ [](\A t \in Tasks :
             /\ fileOpen[t] <=> pc[t] \in {"call", "write", "flush", "close"}
             /\ pc[t] = "close" => (buf[t] = <<>> \/ werr[t]))
    /\ [][\A t \in Tasks :
             /\ (fileOpen[t] /\ ~fileOpen'[t]) => pc[t] = "close"
             /\ (pc'[t] = "close" /\ pc[t] # "close") => pc[t] = "flush"
             /\ (pc'[t] \in {"backoff", "done"} /\ pc[t] # pc'[t]) => ~fileOpen'[t]]_vars

\* a sleeps in backoff after a write error part-way through the lines (some reached
\* the file), b has ended after a remote-call error; neither holds an open file
C14_Witness ==
    \E a, b \in Tasks :
        /\ pc[a] = "backoff" /\ failures[a] = 1 /\ callFails[a] = 0 /\ ~fileOpen[a]
        /\ SoleWriter(a) /\ fs[FileOf(a)].data # InitialFiles[FileOf(a)].data
        /\ pc[b] = "done" /\ callFails[b] >= 1 /\ ~fileOpen[b]

(***************************************************************************)
(* C15.  A task that is blocked in limiter.Wait, its permit not yet due,   *)
(* when ctx is cancelled ends Cancelled at its next step and is counted by *)
(* the join; a Cancelled task has reported the rate limit error once, was  *)
(* granted no permit, never invoked the operation, issued no remote call   *)
(* and left its file as it was (not created, not opened).                  *)
(***************************************************************************)
C15_CancelledAtLimiter ==
    /\ [](\A t \in Tasks :
             outcome[t] = "Cancelled"
                 => /\ pc[t] = "done"
                    /\ diags[t] = <<"Rate limit error">>
                    /\ permits[t] = 0 /\ invocations[t] = 0 /\ calls[t] = 0
                    /\ ~fileOpen[t]
                    /\ SoleWriter(t) => fs[FileOf(t)] = InitialFiles[FileOf(t)])
    /\ [][\A t \in Tasks :
             (pc[t] = "limWait" /\ ctxDone /\ timeToAct[t] > now /\ pc'[t] # pc[t])
                 => outcome'[t] = "Cancelled" /\ wg' = wg - 1]_vars

\* the run is over: a task that waited for a permit reserved ahead was cancelled there
C15_Witness ==
    /\ mainPc = "returned"
    /\ \E t \in Tasks :
          /\ outcome[t] = "Cancelled" /\ timeToAct[t] > 0
          /\ SoleWriter(t) /\ ~fs[FileOf(t)].exists

(***************************************************************************)
(* C16.  Every failure met inside an attempt (client creation, URL parse,  *)
(* file open, remote call, a write to the file) is handled the same way:   *)
(* the attempt is followed by a backoff sleep and another attempt, or, the *)
(* retry budget being spent, by the task's end as Exhausted.  A write that *)
(* fails in the deferred Flush is not handled so: the task ends Succeeded. *)
(***************************************************************************)
C16_EveryFailureRetried ==
    [][\A t \in Tasks :
          (\/ pc[t] = "retry" /\ pc'[t] \notin {"retry", "call"}
           \/ pc[t] = "close" /\ (opErr[t] \/ werr[t]) /\ pc'[t] # "close")
              => \/ pc'[t] = "backoff"
                 \/ /\ outcome'[t] = "Exhausted"
                    /\ \E d \in 1..MaxInterval : NextBackOffStops(now - startTime[t], d)]_vars

(***************************************************************************)
(* C17.  The attempts of one task never overlap: the operation is invoked  *)
(* again only when the attempt before has returned, its file closed and    *)
(* its response and buffer gone, and an attempt issues at most one remote  *)
(* call; the attempts of different tasks interleave freely.                *)
(***************************************************************************)
C17_AttemptsSequential ==
    /\ [](\A t \in Tasks : calls[t] <= invocations[t])
    /\ [][\A t \in Tasks :
             /\ invocations'[t] # invocations[t]
                   => /\ invocations'[t] = invocations[t] + 1
                      /\ pc[t] = "retry" /\ ~fileOpen[t]
                      /\ resp[t] = <<>> /\ buf[t] = <<>> /\ pend[t] = <<>>
                      /\ calls[t] <= invocations[t]
             /\ calls'[t] # calls[t]
                   => calls'[t] = calls[t] + 1 /\ calls[t] < invocations[t]]_vars

\* a is in its second attempt, its file open, while b has its own file open too
C17_Witness ==
    \E a, b \in Tasks :
        /\ a # b
        /\ invocations[a] = 2 /\ failures[a] = 1 /\ fileOpen[a] /\ pc[a] = "write"
        /\ fileOpen[b] /\ pc[b] \in {"call", "write"}

(***************************************************************************)
(* C18.  A task ends Succeeded only if every line of the response of its   *)
(* last attempt has reached its file: no write of that attempt failed, and *)
(* (the task being the sole writer of the file) the file ends with those   *)
(* lines.  The error of the deferred Flush is dropped, and the task        *)
(* succeeds with buffered lines lost.                                      *)
(***************************************************************************)
EndsWith(s, suffix) ==
    /\ Len(suffix) <= Len(s)
    /\ SubSeq(s, Len(s) - Len(suffix) + 1, Len(s)) = suffix

C18_SucceededOnlyIfWritten ==
    \A t \in Tasks :
        outcome[t] = "Succeeded"
            => /\ ~werr[t]
               /\ SoleWriter(t) => EndsWith(fs[FileOf(t)].data, ExpectedLines(t))

(***************************************************************************)
(* C19.  A task that ended Exhausted with every attempt failed at the      *)
(* remote call has neither created nor changed its file.  The file is      *)
(* opened with O_CREATE before the call is issued, and exists afterwards.  *)
(***************************************************************************)
C19_NoOutputWhenCallsFail ==
    \A t \in Tasks :
        (outcome[t] = "Exhausted" /\ callFails[t] = invocations[t] /\ SoleWriter(t))
            => fs[FileOf(t)] = InitialFiles[FileOf(t)]

(***************************************************************************)
(* C20.  A task that ended Succeeded, no write of its last attempt having  *)
(* failed, has added each line of the response to its file exactly once,   *)
(* however many attempts failed before.  Lines that a failed attempt had   *)
(* already written stay in the file, and the retry appends them again.     *)
(***************************************************************************)
C20_LinesExactlyOnce ==
    \A t \in Tasks :
        (outcome[t] = "Succeeded" /\ ~werr[t] /\ SoleWriter(t))
            => fs[FileOf(t)].data = InitialFiles[FileOf(t)].data \o ExpectedLines(t)

====
